---- MODULE Spec2Model ----
(***************************************************************************)
(* A model of minigun/testing.py: the domain(...) decorator that builds a  *)
(* Unit, the trial loop _find_counter_example, the multi-parameter shrink  *)
(* combinator _distribute_dict_domain, the minimization search             *)
(* _trim_counter_example and Suite.evaluate.                               *)
(*                                                                         *)
(* Python dicts are insertion-ordered maps; they are modelled as sequences *)
(* of <<key, value>> pairs.  A Domain (a shrink tree) is a record          *)
(* [head, tail] whose tail is the finite sequence of its child Domains; a  *)
(* Stream is the finite sequence of its elements.                          *)
(***************************************************************************)
EXTENDS Integers, Sequences, FiniteSets, TLC

(***************************************************************************)
(* Bounds of the model.                                                    *)
(***************************************************************************)
MaxVal == 2        \* sampled head values are 0..MaxVal
MaxCount == 2      \* a Test's trial count is 0..MaxCount
MaxTests == 3      \* a Suite holds 1..MaxTests Tests

Values == 0..MaxVal

(***************************************************************************)
(* maybe: Nothing / Something(value)                                       *)
(***************************************************************************)
Nothing == [tag |-> "Nothing"]
Something(v) == [tag |-> "Something", value |-> v]

(***************************************************************************)
(* Python dict as a sequence of <<key, value>> pairs, insertion ordered.   *)
(***************************************************************************)
DictKeys(dict) == [i \in 1..Len(dict) |-> dict[i][1]]
DictKeySet(dict) == {dict[i][1] : i \in 1..Len(dict)}
DictHas(dict, k) == k \in DictKeySet(dict)
DictGet(dict, k) == dict[CHOOSE i \in 1..Len(dict) : dict[i][1] = k][2]
\* dict[k] = v : an existing key keeps its position, a new key goes last
DictSet(dict, k, v) ==
    IF DictHas(dict, k)
    THEN [i \in 1..Len(dict) |-> IF dict[i][1] = k THEN <<k, v>> ELSE dict[i]]
    ELSE Append(dict, <<k, v>>)

SeqToSet(seq) == {seq[i] : i \in 1..Len(seq)}
\* every ordering of a finite set, as sequences without repetition
Orderings(S) ==
    {seq \in [1..Cardinality(S) -> S] : SeqToSet(seq) = S}

(***************************************************************************)
(* domain: head and tail of a Domain; stream: is_empty, peek.              *)
(***************************************************************************)
head(dom) == dom.head
tail(dom) == dom.tail

is_empty(stream) == Len(stream) = 0

\* the first element of the stream, if any
peek(stream) ==
    IF Len(stream) = 0 THEN Nothing ELSE Something(Head(stream))

(***************************************************************************)
(* Shrink trees.  A sampler's Domains are unfolded from a shrinker: the    *)
(* candidates a value shrinks to, in stream order, all strictly smaller.   *)
(***************************************************************************)
Shrinkers == {"leaf", "dec", "zero_dec", "dec_zero", "half_dec"}

Candidates(shr, v) ==
    CASE shr = "leaf"     -> <<>>
      [] shr = "dec"      -> IF v > 0 THEN <<v - 1>> ELSE <<>>
      [] shr = "zero_dec" -> IF v > 1 THEN <<0, v - 1>>
                             ELSE IF v = 1 THEN <<0>> ELSE <<>>
      [] shr = "dec_zero" -> IF v > 1 THEN <<v - 1, 0>>
                             ELSE IF v = 1 THEN <<0>> ELSE <<>>
      [] shr = "half_dec" -> IF v > 1 THEN <<v \div 2, v - 1>>
                             ELSE IF v = 1 THEN <<0>> ELSE <<>>

RECURSIVE MkDomain(_, _)
MkDomain(shr, v) ==
    [head |-> v,
     tail |-> [i \in 1..Len(Candidates(shr, v)) |->
                  MkDomain(shr, Candidates(shr, v)[i])]]

(***************************************************************************)
(* arbitrary / quantify: the PRNG state and the samplers.  A sampler is a  *)
(* pure function of the state: it returns the advanced state and a Domain. *)
(***************************************************************************)
seed == 0

MkSampler(off, shr) == [off |-> off, shr |-> shr]

\* arg_sampler(state) -> (state, arg)
SamplerState(sampler, st) == st + 1
SamplerDomain(sampler, st) ==
    MkDomain(sampler.shr, (sampler.off + st) % (MaxVal + 1))

\* q.infer(arg_type): the registry of default samplers
infer(arg_type) ==
    CASE arg_type = "int"  -> Something(MkSampler(0, "dec"))
      [] arg_type = "nat"  -> Something(MkSampler(1, "zero_dec"))
      [] OTHER             -> Nothing

(***************************************************************************)
(* Laws: a declared signature (parameter names in order, their annotated   *)
(* types) and a deterministic predicate over the named arguments.          *)
(***************************************************************************)
RECURSIVE SumValues(_)
SumValues(kw) ==
    IF Len(kw) = 0 THEN 0 ELSE Head(kw)[2] + SumValues(Tail(kw))

\* law(kw) for keyword arguments that match the signature
LawHolds(law, kw) ==
    CASE law.pred = "lt" -> SumValues(kw) < law.k
      [] law.pred = "ne" -> SumValues(kw) # law.k

\* law(kw): a keyword that is no parameter, or a missing one, is a TypeError
CallLaw(law, kw) ==
    IF DictKeySet(kw) # SeqToSet(law.params) THEN "TypeError"
    ELSE IF LawHolds(law, kw) THEN "True" ELSE "False"

(***************************************************************************)
(* _distribute_dict_domain(args).  The combined Domain is the pair         *)
(* (values, partial(_thunk, keys)); it is determined by args, so it is     *)
(* represented by args, with its head and its tail stream computed below.  *)
(***************************************************************************)
\* values = { param : d.head(arg) for param, arg in args.items() }
DictHeads(args) == [i \in 1..Len(args) |-> <<args[i][1], head(args[i][2])>>]

RECURSIVE thunk_stop(_, _)
\* a slip: a parameter whose tail is empty ends the stream
thunk_stop(args, params) ==
    IF Len(params) = 0 THEN <<>>
    ELSE LET param == Head(params)
             rest == Tail(params)
             arg_stream == tail(DictGet(args, param))
         IN IF is_empty(arg_stream) THEN <<>>
            ELSE LET next_arg_domain == Head(arg_stream)
                     newargs == DictSet(args, param, next_arg_domain)
                 IN <<newargs>> \o thunk_stop(args, rest)

RECURSIVE thunk_alias(_, _)
\* a slip: args is changed in place, not copied
thunk_alias(args, params) ==
    IF Len(params) = 0 THEN <<>>
    ELSE LET param == Head(params)
             rest == Tail(params)
             arg_stream == tail(DictGet(args, param))
         IN IF is_empty(arg_stream) THEN thunk_alias(args, rest)
            ELSE LET next_arg_domain == Head(arg_stream)
                     newargs == DictSet(args, param, next_arg_domain)
                 IN <<newargs>> \o thunk_alias(newargs, rest)

RECURSIVE thunk_backwards(_, _)
\* a slip: the parameters are taken from the end of the list
thunk_backwards(args, params) ==
    IF Len(params) = 0 THEN <<>>
    ELSE LET param == params[Len(params)]
             rest == SubSeq(params, 1, Len(params) - 1)
             arg_stream == tail(DictGet(args, param))
         IN IF is_empty(arg_stream) THEN thunk_backwards(args, rest)
            ELSE LET next_arg_domain == Head(arg_stream)
                     newargs == DictSet(args, param, next_arg_domain)
                 IN <<newargs>> \o thunk_backwards(args, rest)

RECURSIVE thunk(_, _)
\* _thunk(params): the stream of the maps _args whose combined Domains the
\* tail stream yields
thunk(args, params) ==
    IF Len(params) = 0 THEN <<>>
    ELSE LET param == Head(params)
             rest == Tail(params)
             arg_stream == tail(DictGet(args, param))
         IN IF is_empty(arg_stream) THEN thunk(args, rest)
            ELSE LET next_arg_domain == Head(arg_stream)
                     newargs == DictSet(args, param, next_arg_domain)
                 IN <<newargs>> \o thunk(args, rest)

\* the tail stream of _distribute_dict_domain(args)
distribute_dict_domain(args) == thunk(args, DictKeys(args))

(***************************************************************************)
(* _trim_counter_example(law, counter_example)                             *)
(***************************************************************************)
\* a slip: the negation is dropped
is_counter_example_no_not(law, args) == LawHolds(law, DictHeads(args))

\* not law(d.head(args))
is_counter_example(law, args) == ~LawHolds(law, DictHeads(args))

\* s.filter(_is_counter_example, trimmed_args): the elements of the stream
\* that satisfy the predicate, in stream order
filter_is_counter_example(law, stream) ==
    LET pred(a) == is_counter_example(law, a)
    IN SelectSeq(stream, pred)

\* a slip: the search stops after the first accepted candidate
search_path_once(law, args) ==
    LET trimmed_args == distribute_dict_domain(args)
        found == peek(filter_is_counter_example(law, trimmed_args))
    IN IF found.tag = "Something" THEN <<args, found.value>> ELSE <<args>>

RECURSIVE search_path(_, _)
\* the combined Domains that _search makes its current (init_args,
\* trimmed_args), from the one it starts with to the one it returns from
search_path(law, args) ==
    LET trimmed_args == distribute_dict_domain(args)
        found == peek(filter_is_counter_example(law, trimmed_args))
    IN IF found.tag = "Something"
       THEN <<args>> \o search_path(law, found.value)
       ELSE <<args>>

\* a slip: init_args is not replaced by the accepted candidates
search_first(law, args) ==
    LET path == search_path(law, args)
    IN DictHeads(path[1])

search(law, args) ==
    LET path == search_path(law, args)
    IN DictHeads(path[Len(path)])

trim_counter_example(law, counter_example) == search(law, counter_example)

RECURSIVE filter_forced(_, _)
\* the elements of the stream that s.peek(s.filter(_is_counter_example,
\* stream)) calls the predicate on: a lazy filter tests the elements in
\* stream order and forces none beyond the first match
filter_forced(law, stream) ==
    IF is_empty(stream) THEN <<>>
    ELSE IF is_counter_example(law, Head(stream)) THEN <<Head(stream)>>
    ELSE <<Head(stream)>> \o filter_forced(law, Tail(stream))

\* one round of the while loop of _search: its init_args and trimmed_args,
\* the candidates the law was called on, and what peek returned
SearchRound(law, args) ==
    LET trimmed_args == distribute_dict_domain(args)
    IN [args |-> args,
        init_args |-> DictHeads(args),
        trimmed_args |-> trimmed_args,
        tested |-> filter_forced(law, trimmed_args),
        found |-> peek(filter_is_counter_example(law, trimmed_args))]

RECURSIVE search_rounds_last(_, _)
\* a slip: the last falsifying candidate of the stream is taken
search_rounds_last(law, args) ==
    LET trimmed_args == distribute_dict_domain(args)
        matches == filter_is_counter_example(law, trimmed_args)
        round == [SearchRound(law, args) EXCEPT
                    !.tested = trimmed_args,
                    !.found = IF is_empty(matches) THEN Nothing
                              ELSE Something(matches[Len(matches)])]
    IN IF round.found.tag = "Something"
       THEN <<round>> \o search_rounds_last(law, round.found.value)
       ELSE <<round>>

RECURSIVE search_rounds_same_stream(_, _, _)
\* a slip: after a match only init_args is replaced, and the next round
\* goes on in the rest of the stream it was found in
search_rounds_same_stream(law, args, trimmed_args) ==
    LET tested == filter_forced(law, trimmed_args)
        found == peek(filter_is_counter_example(law, trimmed_args))
        round == [args |-> args, init_args |-> DictHeads(args),
                  trimmed_args |-> trimmed_args, tested |-> tested,
                  found |-> found]
    IN IF found.tag = "Something"
       THEN <<round>> \o search_rounds_same_stream(law, found.value,
                SubSeq(trimmed_args, Len(tested) + 1, Len(trimmed_args)))
       ELSE <<round>>

\* a slip, as a search from the combined Domain of args
search_rounds_no_restart(law, args) ==
    search_rounds_same_stream(law, args, distribute_dict_domain(args))

RECURSIVE search_rounds(_, _)
\* the rounds of the while loop of _search, from the first to the one that
\* returns
search_rounds(law, args) ==
    LET round == SearchRound(law, args)
    IN IF round.found.tag = "Something"
       THEN <<round>> \o search_rounds(law, round.found.value)
       ELSE <<round>>

(***************************************************************************)
(* domain(lparams, kparams)(law)                                          *)
(***************************************************************************)
RECURSIVE SetItems(_, _)
\* for param, arg_sampler in items: args[param] = arg_sampler
SetItems(args, items) ==
    IF Len(items) = 0 THEN args
    ELSE SetItems(DictSet(args, Head(items)[1], Head(items)[2]), Tail(items))

\* zip(params[:len(lparams)], lparams)
ZipParams(params, lparams) ==
    LET n == IF Len(lparams) < Len(params) THEN Len(lparams) ELSE Len(params)
    IN [i \in 1..n |-> <<params[i], lparams[i]>>]

\* "Gather declared arguments": positional samplers, then keyword samplers
DeclaredArgs(law, lparams, kparams) ==
    SetItems(SetItems(<<>>, ZipParams(law.params, lparams)), kparams)

\* set(params).difference(set(args.keys()))
MissingParams(law, args) == SeqToSet(law.params) \ DictKeySet(args)

RECURSIVE InferMissingSkip(_, _, _, _)
\* a slip: a parameter whose type has no sampler is passed over
InferMissingSkip(law, args, order, consulted) ==
    IF Len(order) = 0
    THEN [tag |-> "Unit", law |-> law, args |-> args, refines |-> <<>>,
          consulted |-> consulted]
    ELSE LET param == Head(order)
             arg_sampler == infer(law.types[param])
         IN IF arg_sampler = Nothing
            THEN InferMissingSkip(law, args, Tail(order),
                                  consulted \cup {param})
            ELSE InferMissingSkip(law,
                                  DictSet(args, param, arg_sampler.value),
                                  Tail(order), consulted \cup {param})

RECURSIVE InferMissing(_, _, _, _)
\* "Infer missing arguments", the set being iterated in the given order
InferMissing(law, args, order, consulted) ==
    IF Len(order) = 0
    THEN [tag |-> "Unit", law |-> law, args |-> args, refines |-> <<>>,
          consulted |-> consulted]
    ELSE LET param == Head(order)
             arg_sampler == infer(law.types[param])
         IN IF arg_sampler = Nothing
            THEN [tag |-> "RuntimeError", param |-> param, law |-> law.name,
                  consulted |-> consulted \cup {param}]
            ELSE InferMissing(law, DictSet(args, param, arg_sampler.value),
                              Tail(order), consulted \cup {param})

\* _decorate(law); order is the iteration order of the set of missing
\* parameters, which the language leaves unspecified
decorate(law, lparams, kparams, order) ==
    InferMissing(law, DeclaredArgs(law, lparams, kparams), order, {})

(***************************************************************************)
(* The program: the module's Test declarations are decorated in order,     *)
(* then Suite.evaluate runs them.                                          *)
(***************************************************************************)
VARIABLES
    decls,      \* the declarations: [name, count, law, lparams, kparams]
    pc,         \* where the program is
    tests,      \* Suite._tests built so far: [name, count, unit]
    consulted,  \* per declaration, the parameters infer was called for
    error,      \* the exception that ended the program, if any
    state,      \* Suite.evaluate: state
    ti,         \* Suite.evaluate: position of the current Test
    fstate,     \* _find_counter_example: state
    trial,      \* _find_counter_example: number of trials started
    example,    \* _find_counter_example: example
    ret,        \* the pair returned by test.unit(state)
    result,     \* what Suite.evaluate returned
    report,     \* what Suite.evaluate printed on failure
    calls,      \* history: the sampler calls made
    evals,      \* history: the law evaluations of the trial loops
    trimmed,    \* history: the calls of _trim_counter_example
    unitcalls,  \* history: the calls test.unit(state) of Suite.evaluate
    returns,    \* history: what each of those calls returned
    run,        \* which run of the program this is
    prev        \* the outcome of the previous run

vars == <<decls, pc, tests, consulted, error, state, ti, fstate, trial,
          example, ret, result, report, calls, evals, trimmed, unitcalls,
          returns, run, prev>>

NoValue == [tag |-> "None"]
\* return value
Return(v) == [tag |-> "Return", value |-> v]

InitWith(d) ==
    /\ decls = d
    /\ pc = "import"
    /\ tests = <<>>
    /\ consulted = <<>>
    /\ error = NoValue
    /\ state = NoValue
    /\ ti = 0
    /\ fstate = NoValue
    /\ trial = 0
    /\ example = <<>>
    /\ ret = NoValue
    /\ result = NoValue
    /\ report = NoValue
    /\ calls = <<>>
    /\ evals = <<>>
    /\ trimmed = <<>>
    /\ unitcalls = <<>>
    /\ returns = <<>>
    /\ run = 1
    /\ prev = NoValue

\* @domain(lparams, kparams) and @test(name, count) applied to the next
\* declared law
Decorate ==
    /\ pc = "import"
    /\ Len(tests) < Len(decls)
    /\ LET decl == decls[Len(tests) + 1]
           declared == DeclaredArgs(decl.law, decl.lparams, decl.kparams)
       IN \E order \in Orderings(MissingParams(decl.law, declared)) :
            LET unit == decorate(decl.law, decl.lparams, decl.kparams, order)
            IN /\ consulted' = Append(consulted, unit.consulted)
               /\ IF unit.tag = "Unit"
                  THEN /\ tests' = Append(tests,
                              [name |-> decl.name, count |-> decl.count,
                               unit |-> [law |-> unit.law, args |-> unit.args,
                                         refines |-> unit.refines]])
                       /\ UNCHANGED <<pc, error>>
                  ELSE /\ pc' = "raised"
                       /\ error' = [tag |-> unit.tag, param |-> unit.param,
                                    law |-> unit.law]
                       /\ UNCHANGED tests
    /\ UNCHANGED <<decls, state, ti, fstate, trial, example, ret, result,
                   report, calls, evals, trimmed, unitcalls, returns, run,
                   prev>>

\* Suite.evaluate: state = a.seed()
Evaluate ==
    /\ pc = "import"
    /\ Len(tests) = Len(decls)
    /\ state' = seed
    /\ ti' = 0
    /\ pc' = "suite_loop"
    /\ UNCHANGED <<decls, tests, consulted, error, fstate, trial, example,
                   ret, result, report, calls, evals, trimmed, unitcalls,
                   returns, run, prev>>

\* a slip: every Test is given a fresh seed
UnitArgumentSeed == seed

\* the state that Suite.evaluate passes to test.unit
UnitArgument == state

\* Suite.evaluate: for test in self._tests: test.unit(state), or after the
\* loop: print('All tests passed!'); return True
SuiteLoop ==
    /\ pc = "suite_loop"
    /\ IF ti < Len(tests)
       THEN /\ ti' = ti + 1
            /\ fstate' = UnitArgument
            /\ trial' = 0
            /\ example' = <<>>
            /\ unitcalls' = Append(unitcalls,
                   [test |-> ti + 1, state |-> UnitArgument])
            /\ pc' = "trial_loop"
            /\ UNCHANGED result
       ELSE /\ result' = Return(TRUE)
            /\ pc' = "done"
            /\ UNCHANGED <<ti, fstate, trial, example, unitcalls>>
    /\ UNCHANGED <<decls, tests, consulted, error, state, ret, report,
                   calls, evals, trimmed, returns, run, prev>>

\* a slip: one trial too many
trange_inclusive(started, count) == started <= count

\* for _ in trange(count): whether another trial follows the trials started
trange(started, count) == started < count

\* _find_counter_example: for _ in trange(count): example = {}, or after
\* the loop: return state, m.Nothing()
TrialLoop ==
    /\ pc = "trial_loop"
    /\ IF trange(trial, tests[ti].count)
       THEN /\ trial' = trial + 1
            /\ example' = <<>>
            /\ pc' = IF Len(tests[ti].unit.args) = 0 THEN "check" ELSE "sample"
            /\ UNCHANGED ret
       ELSE /\ ret' = [state |-> fstate, counter_example |-> Nothing]
            /\ pc' = "returned"
            /\ UNCHANGED <<trial, example>>
    /\ UNCHANGED <<decls, tests, consulted, error, state, ti, fstate, result,
                   report, calls, evals, trimmed, unitcalls, returns, run,
                   prev>>

\* _find_counter_example: state, arg = arg_sampler(state);
\* example[param] = arg, for the next item of unit.args
Sample ==
    /\ pc = "sample"
    /\ LET item == tests[ti].unit.args[Len(example) + 1]
           param == item[1]
           arg_sampler == item[2]
           arg == SamplerDomain(arg_sampler, fstate)
       IN /\ fstate' = SamplerState(arg_sampler, fstate)
          /\ example' = DictSet(example, param, arg)
          /\ calls' = Append(calls,
                 [test |-> ti, trial |-> trial, param |-> param,
                  sampler |-> arg_sampler, state |-> fstate,
                  next |-> SamplerState(arg_sampler, fstate), arg |-> arg])
          /\ pc' = IF Len(example) + 1 = Len(tests[ti].unit.args)
                   THEN "check" ELSE "sample"
    /\ UNCHANGED <<decls, tests, consulted, error, state, ti, trial, ret,
                   result, report, evals, trimmed, unitcalls, returns, run,
                   prev>>

\* a slip: the state the Test was called with is returned
ReturnCounterExampleStale(st, law, ex) ==
    [state |-> state,
     counter_example |-> Something(trim_counter_example(law, ex))]

\* return state, m.Something(_trim_counter_example(unit.law, example))
ReturnCounterExample(st, law, ex) ==
    [state |-> st,
     counter_example |-> Something(trim_counter_example(law, ex))]

\* _find_counter_example: _example = heads; if unit.law(_example):
\* continue; return state, m.Something(_trim_counter_example(law, example))
CheckLaw ==
    /\ pc = "check"
    /\ LET law == tests[ti].unit.law
           heads == DictHeads(example)
           holds == CallLaw(law, heads)
       IN /\ evals' = Append(evals,
                 [test |-> ti, trial |-> trial, values |-> heads,
                  result |-> holds])
          /\ CASE holds = "True" ->
                    /\ pc' = "trial_loop"
                    /\ UNCHANGED <<ret, error, trimmed>>
               [] holds = "False" ->
                    /\ ret' = ReturnCounterExample(fstate, law, example)
                    /\ trimmed' = Append(trimmed,
                           [test |-> ti, law |-> law,
                            counter_example |-> example])
                    /\ pc' = "returned"
                    /\ UNCHANGED error
               [] OTHER ->
                    /\ pc' = "raised"
                    /\ error' = [tag |-> "TypeError", param |-> NoValue,
                                 law |-> law.name]
                    /\ UNCHANGED <<ret, trimmed>>
    /\ UNCHANGED <<decls, tests, consulted, state, ti, fstate, trial,
                   example, result, report, calls, unitcalls, returns, run,
                   prev>>

\* if isinstance(counter_example, m.Nothing): continue
AfterNothing == "suite_loop"
\* a slip: the loop goes on after a counter example
AfterCounterExampleContinue == "suite_loop"

\* print(...); return False
AfterCounterExample == "done"

\* Suite.evaluate: state, counter_example = test.unit(state); Nothing:
\* continue; otherwise print the Test's name and the counter example and
\* return False
TestReturn ==
    /\ pc = "returned"
    /\ state' = ret.state
    /\ returns' = Append(returns, [test |-> ti, state |-> ret.state,
                                   counter_example |-> ret.counter_example])
    /\ IF ret.counter_example = Nothing
       THEN /\ pc' = AfterNothing
            /\ UNCHANGED <<result, report>>
       ELSE /\ report' = [test |-> tests[ti].name,
                          counter_example |-> ret.counter_example.value]
            /\ result' = Return(FALSE)
            /\ pc' = AfterCounterExample
    /\ UNCHANGED <<decls, tests, consulted, error, ti, fstate, trial,
                   example, ret, calls, evals, trimmed, unitcalls, run, prev>>

Next ==
    \/ Decorate
    \/ Evaluate
    \/ SuiteLoop
    \/ TrialLoop
    \/ Sample
    \/ CheckLaw
    \/ TestReturn

(***************************************************************************)
(* The declarations the program is run on.                                 *)
(***************************************************************************)
TestNames == <<"T1", "T2", "T3", "T4", "T5">>

MkLaw(name, params, types, pred, k) ==
    [name |-> name, params |-> params, types |-> types, pred |-> pred, k |-> k]

MkDecl(count, law, lparams, kparams) ==
    [name |-> "", count |-> count, law |-> law,
     lparams |-> lparams, kparams |-> kparams]

\* the Tests of a module, named in declaration order
Named(seq) == [i \in 1..Len(seq) |-> [seq[i] EXCEPT !.name = TestNames[i]]]

SuitesOf(S, n) == {Named(seq) : seq \in UNION {[1..m -> S] : m \in 1..n}}

\* a law over x, and a law over x and y, with the given annotations
TypedLawX(tx, pred, k) ==
    MkLaw("law_x", <<"x">>, [p \in {"x"} |-> tx], pred, k)
TypedLawXY(tx, ty, pred, k) ==
    MkLaw("law_xy", <<"x", "y">>,
          [p \in {"x", "y"} |-> IF p = "x" THEN tx ELSE ty], pred, k)
LawX(pred, k) == TypedLawX("int", pred, k)
LawXY(pred, k) == TypedLawXY("int", "int", pred, k)

AllSamplers == {MkSampler(off, shr) : off \in Values, shr \in Shrinkers}

\* Suites of several Tests: each Test passes always (k above every sum) or
\* fails on a large enough sum, over one or two explicitly sampled
\* parameters, with no trial or with MaxCount trials
SuiteTests ==
    {MkDecl(count, law, lparams, <<>>) :
        count \in {0, MaxCount},
        law \in {LawX("lt", 1), LawX("lt", 2 * MaxVal + 1)},
        lparams \in {<<MkSampler(0, "dec")>>}}
    \cup
    {MkDecl(count, law, lparams, <<>>) :
        count \in {0, MaxCount},
        law \in {LawXY("lt", 2), LawXY("lt", 2 * MaxVal + 1)},
        lparams \in {<<MkSampler(0, "dec"), MkSampler(1, "zero_dec")>>}}

Init == \E d \in SuitesOf(SuiteTests, MaxTests) : InitWith(d)

Spec == Init /\ [][Next]_vars

\* One Test: every law of the two families, every sampler per parameter,
\* every trial count
SingleTests ==
    {MkDecl(count, LawX(pred, k), <<sx>>, <<>>) :
        count \in 0..MaxCount, pred \in {"lt", "ne"}, k \in 0..(2 * MaxVal + 1),
        sx \in AllSamplers}
    \cup
    {MkDecl(count, LawXY(pred, k), <<sx, sy>>, <<>>) :
        count \in 0..MaxCount, pred \in {"lt", "ne"}, k \in 0..(2 * MaxVal + 1),
        sx \in AllSamplers, sy \in AllSamplers}

InitTest == \E d \in SuitesOf(SingleTests, 1) : InitWith(d)

SpecTest == InitTest /\ [][Next]_vars

\* Declarations that exercise domain(lparams, kparams): every annotation
\* of the parameters, 0..3 positional samplers, and keyword samplers for
\* any of x, y and z (z is no parameter) in any order
Types == {"int", "nat", "obj"}
PosSampler(i) == MkSampler(i % (MaxVal + 1), "dec_zero")
KwSampler(n) == MkSampler(IF n = "x" THEN 0 ELSE 1, "half_dec")
PosSamplers == {[i \in 1..n |-> PosSampler(i)] : n \in 0..3}
KwSamplers ==
    {[i \in 1..Len(names) |-> <<names[i], KwSampler(names[i])>>] :
        names \in UNION {Orderings(S) : S \in SUBSET {"x", "y", "z"}}}

DomainTests ==
    {MkDecl(1, TypedLawX(tx, "lt", 1), lparams, kparams) :
        tx \in Types, lparams \in PosSamplers, kparams \in KwSamplers}
    \cup
    {MkDecl(1, TypedLawXY(tx, ty, "lt", 2), lparams, kparams) :
        tx \in Types, ty \in Types,
        lparams \in PosSamplers, kparams \in KwSamplers}

PlainTest == MkDecl(1, LawX("lt", 1), <<MkSampler(0, "dec")>>, <<>>)

InitDomain ==
    \E d \in {Named(<<t>>) : t \in DomainTests}
           \cup {Named(<<PlainTest, t>>) : t \in DomainTests} :
       InitWith(d)

SpecDomain == InitDomain /\ [][Next]_vars

\* The program run twice, as two processes started on the same module: the
\* outcome of the first run is kept and the program starts again
Rerun ==
    /\ pc \in {"done", "raised"}
    /\ run = 1
    /\ run' = 2
    /\ prev' = [result |-> result, report |-> report, error |-> error,
                calls |-> calls, evals |-> evals]
    /\ pc' = "import"
    /\ tests' = <<>>
    /\ consulted' = <<>>
    /\ error' = NoValue
    /\ state' = NoValue
    /\ ti' = 0
    /\ fstate' = NoValue
    /\ trial' = 0
    /\ example' = <<>>
    /\ ret' = NoValue
    /\ result' = NoValue
    /\ report' = NoValue
    /\ calls' = <<>>
    /\ evals' = <<>>
    /\ trimmed' = <<>>
    /\ unitcalls' = <<>>
    /\ returns' = <<>>
    /\ UNCHANGED decls

NextRerun == Next \/ Rerun

\* Tests whose samplers are inferred for both, one or none of x and y
RerunTests ==
    {MkDecl(count, TypedLawXY(tx, ty, "lt", k), lparams, <<>>) :
        count \in {1, MaxCount}, tx \in {"int", "nat"}, ty \in {"int", "nat"},
        k \in {1, 2},
        lparams \in {<<>>, <<PosSampler(1)>>, <<PosSampler(1), PosSampler(2)>>}}

InitRerun == \E d \in SuitesOf(RerunTests, 2) : InitWith(d)

SpecRerun == InitRerun /\ [][NextRerun]_vars

\* a law over x, y and z
LawXYZ(pred, k) ==
    MkLaw("law_xyz", <<"x", "y", "z">>, [p \in {"x", "y", "z"} |-> "int"],
          pred, k)

\* the samplers of the three-parameter Tests: leaves, and Domains whose
\* tail streams hold up to two candidates, the smallest first or last
ShrinkSamplers ==
    {MkSampler(off, shr) : off \in Values,
                           shr \in {"leaf", "zero_dec", "dec_zero"}}

\* One Test of one trial over three parameters: every threshold of the
\* sum, every sampler of ShrinkSamplers per parameter
ShrinkTests ==
    {MkDecl(1, LawXYZ("lt", k), <<sx, sy, sz>>, <<>>) :
        k \in 0..(3 * MaxVal + 1),
        sx \in ShrinkSamplers, sy \in ShrinkSamplers, sz \in ShrinkSamplers}

InitShrink == \E d \in SuitesOf(ShrinkTests, 1) : InitWith(d)

SpecShrink == InitShrink /\ [][Next]_vars

(***************************************************************************)
(* Properties                                                              *)
(***************************************************************************)
\* the Test that is running, or that ran last
CurrentLaw == tests[ti].unit.law
Returned == ret # NoValue
ReturnedSomething == Returned /\ ret.counter_example.tag = "Something"
\* the last call of _trim_counter_example
LastTrim == trimmed[Len(trimmed)]

\* C1: whenever a Test returns a Present counter example, the law called
\* on exactly the reported name -> value map returns False; the same holds
\* of the counter example Suite.evaluate prints.
C1_Soundness ==
    /\ ReturnedSomething =>
          CallLaw(CurrentLaw, ret.counter_example.value) = "False"
    /\ report # NoValue =>
          CallLaw(CurrentLaw, report.counter_example) = "False"

\* a counter example over two parameters is returned after two or more
\* accepted shrink steps
C1_Witness ==
    /\ ReturnedSomething
    /\ Len(trimmed) > 0
    /\ Len(LastTrim.counter_example) = 2
    /\ Len(search_path(LastTrim.law, LastTrim.counter_example)) >= 3
    /\ ret.counter_example.value # DictHeads(LastTrim.counter_example)

Upto(n) == [i \in 1..n |-> i]
\* the Tests whose unit was called, in call order
ExecutedTests == [i \in 1..Len(unitcalls) |-> unitcalls[i].test]
YieldedNothing(j) == returns[j].counter_example = Nothing

\* C2: Suite.evaluate runs the Tests in declaration order, each at most
\* once; at the first Test that yields a counter example it returns False,
\* names that Test, and no later Test is executed (no sampler call, no law
\* evaluation); if every Test yields Nothing, every Test ran exactly once
\* and the result is True.
C2_ShortCircuit ==
    /\ ExecutedTests = Upto(ti)
    /\ \A i \in 1..Len(calls) : calls[i].test \in 1..ti
    /\ \A i \in 1..Len(evals) : evals[i].test \in 1..ti
    /\ \A j \in 1..Len(returns) :
          ~YieldedNothing(j) => (result = Return(FALSE) /\ j = Len(returns))
    /\ result = Return(FALSE) =>
          /\ pc = "done"
          /\ Len(returns) = ti
          /\ ~YieldedNothing(ti)
          /\ \A j \in 1..(ti - 1) : YieldedNothing(j)
          /\ report.test = decls[ti].name
          /\ report.counter_example = returns[ti].counter_example.value
    /\ result = Return(TRUE) =>
          /\ pc = "done"
          /\ ExecutedTests = Upto(Len(decls))
          /\ Len(returns) = Len(decls)
          /\ \A j \in 1..Len(returns) : YieldedNothing(j)

\* T1 passes its trials, T2 fails, T3 would pass: the Suite has returned
\* False naming T2
C2_Witness ==
    /\ result = Return(FALSE)
    /\ Len(decls) = 3
    /\ report.test = "T2"
    /\ decls[1].count > 0
    /\ decls[3].count > 0
    /\ decls[3].law.k = 2 * MaxVal + 1
    /\ \E i \in 1..Len(evals) : evals[i].test = 1

CallsOf(t) == {i \in 1..Len(calls) : calls[i].test = t}
EvalsOf(t) == {i \in 1..Len(evals) : evals[i].test = t}
MaxOf(S) == CHOOSE i \in S : \A j \in S : j <= i

\* C4: when the law holds on every sampled input of a Test with trial
\* count N over k parameters, the Test returns Nothing after exactly N law
\* evaluations and N*k sampler calls, one per parameter and trial, without
\* a shrink search, with the state the last sampler call returned (the
\* state it was called with when N = 0).
C4_Exhaustion ==
    (pc = "returned" /\ \A i \in EvalsOf(ti) : evals[i].result = "True") =>
       LET N == decls[ti].count
           params == decls[ti].law.params
       IN /\ ret.counter_example = Nothing
          /\ Cardinality(EvalsOf(ti)) = N
          /\ Cardinality(CallsOf(ti)) = N * Len(params)
          /\ \A t \in 1..N : \A p \in SeqToSet(params) :
                Cardinality({i \in CallsOf(ti) :
                    calls[i].trial = t /\ calls[i].param = p}) = 1
          /\ \A i \in 1..Len(trimmed) : trimmed[i].test # ti
          /\ ret.state = IF CallsOf(ti) = {} THEN unitcalls[ti].state
                         ELSE calls[MaxOf(CallsOf(ti))].next
          /\ N = 0 => ret.state = unitcalls[ti].state

\* a Test over two parameters has passed MaxCount trials and returned
C4_Witness ==
    /\ pc = "returned"
    /\ ret.counter_example = Nothing
    /\ decls[ti].count = MaxCount
    /\ Len(decls[ti].law.params) = 2
    /\ Len(calls) = 2 * MaxCount

\* the Domains sampled in trial tr of Test t, as the example dict
SampledExample(t, tr) ==
    LET made == SelectSeq(calls, LAMBDA c : c.test = t /\ c.trial = tr)
    IN [j \in 1..Len(made) |-> <<made[j].param, made[j].arg>>]

\* C5: once the law has failed on a trial's heads, no further sampler call
\* and no further trial is made for that Test, the shrink search is given
\* exactly the Domains sampled in that trial, and the state returned with
\* the counter example is the state the trial's last sampler call returned.
C5_StopOnFailure ==
    \A i \in 1..Len(evals) : evals[i].result = "False" =>
       LET t == evals[i].test
           tr == evals[i].trial
       IN /\ i = Len(evals)
          /\ \A j \in CallsOf(t) : calls[j].trial <= tr
          /\ calls[Len(calls)].test = t /\ calls[Len(calls)].trial = tr
          /\ Len(trimmed) = 1
          /\ LastTrim.test = t
          /\ LastTrim.counter_example = SampledExample(t, tr)
          /\ ret.counter_example.tag = "Something"
          /\ ret.state = calls[Len(calls)].next
          /\ pc = "done" => state = calls[Len(calls)].next

\* the second Test has failed in its last trial, over two parameters
C5_Witness ==
    /\ pc = "done"
    /\ result = Return(FALSE)
    /\ ti = 2
    /\ Len(evals) > 0
    /\ evals[Len(evals)].trial = MaxCount
    /\ Len(LastTrim.counter_example) = 2

\* position of a parameter in a Test's Unit.args
ArgPos(t, p) ==
    CHOOSE j \in 1..Len(tests[t].unit.args) : tests[t].unit.args[j][1] = p
CallBefore(a, b) ==
    \/ a.test < b.test
    \/ a.test = b.test /\ a.trial < b.trial
    \/ a.test = b.test /\ a.trial = b.trial
         /\ ArgPos(a.test, a.param) < ArgPos(b.test, b.param)
\* the state the last sampler call of Tests 1..j returned
LastStateUpTo(j) ==
    LET made == {i \in 1..Len(calls) : calls[i].test <= j}
    IN IF made = {} THEN seed ELSE calls[MaxOf(made)].next

\* C10: the first sampler call receives the seed and every other call the
\* state returned by the call before it, in the order Tests, trials,
\* parameters of Unit.args; no state is passed to two calls; a Test is
\* called with the state the previous Test returned, and returns the state
\* its last sampler call returned.
C10_Threading ==
    /\ pc = "suite_loop" /\ ti = 0 => state = seed
    /\ Len(calls) > 0 => calls[1].state = seed
    /\ \A i \in 2..Len(calls) :
          /\ calls[i].state = calls[i - 1].next
          /\ CallBefore(calls[i - 1], calls[i])
    /\ \A i, j \in 1..Len(calls) : i # j => calls[i].state # calls[j].state
    /\ \A j \in 1..Len(unitcalls) :
          unitcalls[j].state = IF j = 1 THEN seed ELSE returns[j - 1].state
    /\ \A j \in 1..Len(returns) : returns[j].state = LastStateUpTo(j)
    /\ pc = "suite_loop" => state = LastStateUpTo(ti)

\* three Tests have run, the first and the third over sampled trials
C10_Witness ==
    /\ Len(returns) = 3
    /\ CallsOf(1) # {}
    /\ CallsOf(3) # {}
    /\ \E i \in CallsOf(3) : calls[i].trial = MaxCount /\ calls[i].param = "y"

RECURSIVE Subtrees(_)
\* the nodes of a shrink tree
Subtrees(dom) ==
    {dom} \cup UNION {Subtrees(tail(dom)[i]) : i \in 1..Len(tail(dom))}

\* b is a with one parameter's Domain replaced by a Domain of that
\* parameter's own tail stream
SingleStep(a, b) ==
    /\ DictKeys(a) = DictKeys(b)
    /\ \E i \in 1..Len(a) :
          /\ b[i][2] \in SeqToSet(tail(a[i][2]))
          /\ \A j \in 1..Len(a) : j # i => b[j] = a[j]

\* the combined Domains the last search went through, and where it ended
LastPath == search_path(LastTrim.law, LastTrim.counter_example)
FinalArgs == LastPath[Len(LastPath)]

\* C6: the reported values are the heads of Domains reached from the
\* failing trial's Domains by single-parameter shrink steps, each a node
\* of that parameter's own shrink tree, and no element of the combined
\* shrink stream of the Domain the search ended at falsifies the law.
C6_MinimalityDirection ==
    (ReturnedSomething /\ Len(trimmed) > 0) =>
       LET E == LastTrim.counter_example
           reported == ret.counter_example.value
           stream == distribute_dict_domain(FinalArgs)
       IN /\ LastPath[1] = E
          /\ \A i \in 1..(Len(LastPath) - 1) :
                SingleStep(LastPath[i], LastPath[i + 1])
          /\ reported = DictHeads(FinalArgs)
          /\ DictKeys(reported) = DictKeys(E)
          /\ \A i \in 1..Len(E) :
                /\ FinalArgs[i][2] \in Subtrees(E[i][2])
                /\ \E n \in Subtrees(E[i][2]) : head(n) = reported[i][2]
          /\ \A i \in 1..Len(stream) :
                CallLaw(LastTrim.law, DictHeads(stream[i])) = "True"

\* a search over two parameters has reduced both of them
C6_Witness ==
    /\ ReturnedSomething
    /\ Len(trimmed) > 0
    /\ Len(FinalArgs) = 2
    /\ FinalArgs[1] # LastTrim.counter_example[1]
    /\ FinalArgs[2] # LastTrim.counter_example[2]
    /\ distribute_dict_domain(FinalArgs) # <<>>

\* C7: the reported counter example is a local minimum under one-step
\* shrinking: replacing any parameter's final Domain by any Domain of its
\* tail stream, the others unchanged, gives heads that satisfy the law.
C7_LocalMinimum ==
    (ReturnedSomething /\ Len(trimmed) > 0) =>
       \A i \in 1..Len(FinalArgs) :
          \A c \in SeqToSet(tail(FinalArgs[i][2])) :
             CallLaw(LastTrim.law,
                     DictHeads(DictSet(FinalArgs, FinalArgs[i][1], c))) = "True"

\* the parameters given an explicit sampler: the first len(lparams) ones,
\* and those named by a keyword
Positional(decl) ==
    {decl.law.params[j] : j \in
        {j \in 1..Len(decl.law.params) : j <= Len(decl.lparams)}}
Explicit(decl) ==
    Positional(decl)
      \cup (DictKeySet(decl.kparams) \cap SeqToSet(decl.law.params))
Uninferable(decl) ==
    {p \in SeqToSet(decl.law.params) \ Explicit(decl) :
        infer(decl.law.types[p]) = Nothing}

\* C8: decorating a law that has a parameter with no explicit sampler and
\* no inferable type raises an error naming such a parameter and the law,
\* builds no Unit, and precedes every sampler call and law evaluation;
\* otherwise the Unit is built, and no inference happens or fails once the
\* Suite runs.
C8_ConstructionError ==
    /\ \A i \in 1..Len(consulted) :
          IF Uninferable(decls[i]) # {}
          THEN /\ pc = "raised"
               /\ i = Len(consulted)
               /\ error.tag = "RuntimeError"
               /\ error.param \in Uninferable(decls[i])
               /\ error.law = decls[i].law.name
               /\ Len(tests) = i - 1
               /\ calls = <<>> /\ evals = <<>> /\ unitcalls = <<>>
          ELSE /\ Len(tests) >= i
               /\ tests[i].name = decls[i].name
               /\ tests[i].unit.law = decls[i].law
               /\ SeqToSet(decls[i].law.params)
                     \subseteq DictKeySet(tests[i].unit.args)
    /\ error.tag = "RuntimeError" =>
          /\ pc = "raised"
          /\ Uninferable(decls[Len(consulted)]) # {}
          /\ calls = <<>> /\ evals = <<>> /\ unitcalls = <<>>
    /\ pc \notin {"import", "raised"} =>
          /\ Len(consulted) = Len(decls)
          /\ Len(tests) = Len(decls)
          /\ \A i \in 1..Len(decls) : Uninferable(decls[i]) = {}

\* the second declaration raised: x is covered by a positional sampler, y
\* has neither a sampler nor an inferable type
C8_Witness ==
    /\ pc = "raised"
    /\ error.tag = "RuntimeError"
    /\ error.param = "y"
    /\ Len(tests) = 1
    /\ Len(decls[2].lparams) = 1
    /\ decls[2].law.types["x"] = "obj"

\* C9: in the Unit built, the i-th positional sampler is bound to the i-th
\* declared parameter, a keyword sampler is bound by name to a remaining
\* parameter, infer is never consulted for a parameter with an explicit
\* sampler, and every other parameter gets the inferred sampler.
C9_ExplicitPrecedence ==
    \A i \in 1..Len(consulted) :
       LET decl == decls[i]
           params == decl.law.params
       IN /\ consulted[i] \cap Explicit(decl) = {}
          /\ i <= Len(tests) =>
               LET args == tests[i].unit.args
               IN /\ \A j \in 1..Len(params) : j <= Len(decl.lparams) =>
                        DictGet(args, params[j]) = decl.lparams[j]
                  /\ \A j \in 1..Len(decl.kparams) :
                        decl.kparams[j][1]
                            \in SeqToSet(params) \ Positional(decl) =>
                        DictGet(args, decl.kparams[j][1]) = decl.kparams[j][2]
                  /\ \A p \in SeqToSet(params) \ Explicit(decl) :
                        /\ p \in consulted[i]
                        /\ DictGet(args, p) = infer(decl.law.types[p]).value

\* a dict as a map, its insertion order forgotten
AsMap(dict) == [k \in DictKeySet(dict) |-> DictGet(dict, k)]

\* C3: two runs of the program on the same declarations and seed make the
\* same sampler calls (same sampler, same state, same parameter order, same
\* sampled Domain), and end with the same result, the same failing Test
\* and the same reported name -> value map.
C3_Determinism ==
    (run = 2 /\ pc \in {"done", "raised"}) =>
       /\ calls = prev.calls
       /\ result = prev.result
       /\ error.tag = prev.error.tag
       /\ report = NoValue <=> prev.report = NoValue
       /\ report # NoValue =>
             /\ report.test = prev.report.test
             /\ AsMap(report.counter_example)
                   = AsMap(prev.report.counter_example)


\* the positions of the parameters whose own tail stream is not empty
NonEmptyTails(a) == {i \in 1..Len(a) : ~is_empty(tail(a[i][2]))}
\* the positions at which the map b differs from the map a
Reduced(a, b) == {i \in 1..Len(a) : b[i] # a[i]}
\* the rounds of the last search
LastRounds == search_rounds(LastTrim.law, LastTrim.counter_example)
Falsifies(law, a) == CallLaw(law, DictHeads(a)) = "False"

\* C11: for every map args the search builds a combined Domain of, the
\* combined tail stream is empty exactly when every parameter's own tail
\* stream is empty, and every parameter whose tail is not empty has a
\* candidate in the stream, whatever the tails of the parameters before it.
C11_Emptiness ==
    Len(trimmed) > 0 =>
       LET path == LastPath
       IN \A n \in 1..Len(path) :
             LET a == path[n]
                 stream == distribute_dict_domain(a)
             IN /\ is_empty(stream) <=> NonEmptyTails(a) = {}
                /\ \A i \in NonEmptyTails(a) :
                      \E j \in 1..Len(stream) : Reduced(a, stream[j]) = {i}

\* a search started at a map whose first two parameters are leaves and
\* whose third is not, and ended at a map of leaves
C11_Witness ==
    /\ Len(trimmed) > 0
    /\ Len(LastPath) > 1
    /\ NonEmptyTails(LastPath[1]) = {3}
    /\ Len(distribute_dict_domain(LastPath[1])) = 1
    /\ NonEmptyTails(FinalArgs) = {}
    /\ is_empty(distribute_dict_domain(FinalArgs))

\* C12: the head of the combined Domain of args maps every name of args to
\* the head of its Domain; every element of its tail stream has the keys
\* of args in the same order and differs from args in exactly one
\* parameter, whose Domain is one of that parameter's own tail stream; the
\* map the search was given is left as it was.
C12_SingleParameterStep ==
    Len(trimmed) > 0 =>
       LET path == LastPath
       IN /\ example = LastTrim.counter_example
          /\ path[1] = LastTrim.counter_example
          /\ DictHeads(path[1]) = evals[Len(evals)].values
          /\ \A n \in 1..Len(path) :
                LET a == path[n]
                    stream == distribute_dict_domain(a)
                IN /\ DictKeys(DictHeads(a)) = DictKeys(a)
                   /\ \A name \in DictKeySet(a) :
                         DictGet(DictHeads(a), name) = head(DictGet(a, name))
                   /\ \A j \in 1..Len(stream) :
                         LET b == stream[j]
                         IN /\ DictKeys(b) = DictKeys(a)
                            /\ Cardinality(Reduced(a, b)) = 1
                            /\ \A i \in Reduced(a, b) :
                                  b[i][2] \in SeqToSet(tail(a[i][2]))

\* a search started at a map all three of whose parameters can be reduced
C12_Witness ==
    /\ Len(trimmed) > 0
    /\ Len(distribute_dict_domain(LastPath[1])) = 3
    /\ Reduced(LastPath[1], distribute_dict_domain(LastPath[1])[3]) = {3}
    /\ ReturnedSomething

\* C13: within the tail stream of one combined Domain, the candidates come
\* in parameter order: of two elements the earlier one reduces the earlier
\* parameter, so no parameter is reduced again once the stream has passed
\* it, and a parameter whose tail is empty is reduced by no element.
C13_LeftToRight ==
    Len(trimmed) > 0 =>
       LET path == LastPath
       IN \A n \in 1..Len(path) :
             LET a == path[n]
                 stream == distribute_dict_domain(a)
             IN /\ \A j \in 1..Len(stream) :
                      /\ Reduced(a, stream[j]) # {}
                      /\ Reduced(a, stream[j]) \subseteq NonEmptyTails(a)
                /\ \A j1, j2 \in 1..Len(stream) : j1 < j2 =>
                      \A i1 \in Reduced(a, stream[j1]) :
                         \A i2 \in Reduced(a, stream[j2]) : i1 < i2

\* a search reached, after an accepted reduction, a map whose first
\* parameter is a leaf and whose second and third are reduced in that order
C13_Witness ==
    /\ Len(trimmed) > 0
    /\ \E n \in 2..Len(LastPath) :
          LET a == LastPath[n]
              stream == distribute_dict_domain(a)
          IN /\ NonEmptyTails(a) = {2, 3}
             /\ Len(stream) = 2
             /\ Reduced(a, stream[1]) = {2}
             /\ Reduced(a, stream[2]) = {3}

\* C14: for every parameter and every Domain of that parameter's own tail
\* stream, the combined tail stream holds the map with that parameter
\* replaced by that Domain and the others unchanged, and holds it before
\* every element that reduces a later parameter.
C14_PerParameterExhaustion ==
    Len(trimmed) > 0 =>
       LET path == LastPath
       IN \A n \in 1..Len(path) :
             LET a == path[n]
                 stream == distribute_dict_domain(a)
             IN \A i \in 1..Len(a) :
                   \A c \in SeqToSet(tail(a[i][2])) :
                      \E j \in 1..Len(stream) :
                         /\ stream[j] = DictSet(a, a[i][1], c)
                         /\ \A j2 \in 1..Len(stream) :
                               (\E i2 \in Reduced(a, stream[j2]) : i2 > i)
                                  => j < j2

\* C15: in every round of the search the law is called on the elements of
\* the current combined tail stream in stream order, each once, up to the
\* first one whose heads falsify the law and on none after it; that first
\* one is the candidate accepted, whether or not a later element falsifies
\* the law too; a round without a match has called the law on every element.
C15_GreedyFirstMatch ==
    Len(trimmed) > 0 =>
       LET path == LastPath
           rounds == LastRounds
           law == LastTrim.law
       IN /\ Len(rounds) = Len(path)
          /\ \A r \in 1..Len(rounds) :
                LET round == rounds[r]
                    S == round.trimmed_args
                    T == round.tested
                IN /\ round.args = path[r]
                   /\ S = distribute_dict_domain(path[r])
                   /\ Len(T) <= Len(S)
                   /\ T = SubSeq(S, 1, Len(T))
                   /\ \A j \in 1..(Len(T) - 1) : ~Falsifies(law, S[j])
                   /\ IF round.found.tag = "Something"
                      THEN /\ Len(T) > 0
                           /\ round.found.value = S[Len(T)]
                           /\ Falsifies(law, S[Len(T)])
                      ELSE /\ T = S
                           /\ \A j \in 1..Len(S) : ~Falsifies(law, S[j])

\* a round accepted the first element of its stream without calling the
\* law on the second, which falsifies the law with a smaller sum
C15_Witness ==
    /\ Len(trimmed) > 0
    /\ \E r \in 1..Len(LastRounds) :
          LET round == LastRounds[r]
          IN /\ Len(round.tested) = 1
             /\ Len(round.trimmed_args) >= 2
             /\ Falsifies(LastTrim.law, round.trimmed_args[2])
             /\ SumValues(DictHeads(round.trimmed_args[2]))
                   < SumValues(DictHeads(round.trimmed_args[1]))

\* C16: after a match the next round's current best is the heads of the
\* accepted candidate and its stream is that candidate's own combined tail
\* stream, with a candidate for every parameter that can be reduced,
\* earlier ones included; the law is never called afterwards on an element
\* that followed the match in an earlier round's stream; so the current
\* bests are a parent-to-child path of the combined shrink tree, and the
\* value returned is the heads of its last node.
C16_ContinueNoBacktrack ==
    Len(trimmed) > 0 =>
       LET path == LastPath
           rounds == LastRounds
       IN /\ Len(rounds) = Len(path)
          /\ rounds[1].args = LastTrim.counter_example
          /\ \A r \in 1..(Len(rounds) - 1) :
                LET round == rounds[r]
                    next == rounds[r + 1]
                IN /\ round.found.tag = "Something"
                   /\ round.found.value \in SeqToSet(round.trimmed_args)
                   /\ next.args = round.found.value
                   /\ next.args = path[r + 1]
                   /\ next.init_args = DictHeads(round.found.value)
                   /\ next.trimmed_args = distribute_dict_domain(next.args)
                   /\ \A i \in NonEmptyTails(next.args) :
                         \E j \in 1..Len(next.trimmed_args) :
                            Reduced(next.args, next.trimmed_args[j]) = {i}
                   /\ \A r2 \in (r + 1)..Len(rounds) :
                         \A j \in (Len(round.tested) + 1)
                                     ..Len(round.trimmed_args) :
                            round.trimmed_args[j]
                               \notin SeqToSet(rounds[r2].tested)
          /\ rounds[Len(rounds)].found = Nothing
          /\ ReturnedSomething =>
                ret.counter_example.value = rounds[Len(rounds)].init_args

\* a round accepted a reduction of the second parameter and left a
\* candidate of the third behind it; the next round called the law on a
\* candidate of the first parameter again
C16_Witness ==
    /\ ReturnedSomething
    /\ Len(trimmed) > 0
    /\ \E r \in 1..(Len(LastRounds) - 1) :
          LET round == LastRounds[r]
              next == LastRounds[r + 1]
          IN /\ Reduced(round.args, next.args) = {2}
             /\ Len(round.trimmed_args) > Len(round.tested)
             /\ Len(next.tested) > 0
             /\ Reduced(next.args, next.tested[1]) = {1}

RECURSIVE Depth(_)
\* the depth of a shrink tree: the length of its longest chain of tail steps
Depth(dom) ==
    IF is_empty(tail(dom)) THEN 0
    ELSE 1 + MaxOf({Depth(tail(dom)[i]) : i \in 1..Len(tail(dom))})
RECURSIVE SumDepths(_)
SumDepths(a) ==
    IF Len(a) = 0 THEN 0 ELSE Depth(Head(a)[2]) + SumDepths(Tail(a))
\* the number of reductions the last search accepted
Accepted == Len(LastPath) - 1

\* C17: over shrink trees of finite depth with finite tail streams a call
\* of _trim_counter_example returns: it accepts at most as many reductions
\* as the sum of the depths of the parameters' trees, its last round finds
\* no falsifying candidate, and it returns the heads of the last accepted
\* map, which falsify the law, or of the failing map it was given if it
\* accepted none.
C17_Termination ==
    Len(trimmed) > 0 =>
       LET path == LastPath
           rounds == LastRounds
           accepted == Len(path) - 1
       IN /\ pc \in {"returned", "done"}
          /\ ReturnedSomething
          /\ accepted <= SumDepths(LastTrim.counter_example)
          /\ Len(rounds) = accepted + 1
          /\ rounds[Len(rounds)].found = Nothing
          /\ \A r \in 1..(Len(rounds) - 1) : rounds[r].found.tag = "Something"
          /\ ret.counter_example.value = DictHeads(path[Len(path)])
          /\ Falsifies(LastTrim.law, path[Len(path)])
          /\ accepted = 0 =>
                ret.counter_example.value
                   = DictHeads(LastTrim.counter_example)

\* a search has returned after accepting as many reductions as the trees
\* are deep together, four or more
C17_Witness ==
    /\ ReturnedSomething
    /\ Len(trimmed) > 0
    /\ Accepted >= 4
    /\ Accepted = SumDepths(LastTrim.counter_example)
    /\ NonEmptyTails(FinalArgs) = {}

\* C18: the keys of the args of every Unit built are exactly the declared
\* parameters of its law, whatever positional and keyword samplers were
\* given; so every trial calls the law with exactly its parameters, and a
\* reported counter example has exactly those names as keys.
C18_UnitCoverage ==
    /\ \A i \in 1..Len(tests) :
          DictKeySet(tests[i].unit.args) = SeqToSet(decls[i].law.params)
    /\ \A i \in 1..Len(evals) :
          /\ DictKeySet(evals[i].values)
                = SeqToSet(decls[evals[i].test].law.params)
          /\ evals[i].result \in {"True", "False"}
    /\ error.tag # "TypeError"
    /\ report # NoValue =>
          DictKeySet(report.counter_example) = SeqToSet(decls[ti].law.params)

====
